---- MODULE Spec2Model ----
\* garde_derive: #[derive(Validate)].  The derive input is read item by item
\* (context attributes, variants, fields, the annotations of each field), the
\* definition errors are collected in `errors`, and when there is none the
\* generated `validate` is run on instances.
EXTENDS Integers, Sequences, FiniteSets, TLC

\* ---------------------------------------------------------------- bounds
\* most syntax nodes of one derive input: its container attributes, variants,
\* fields, field annotations and field attributes that do not parse
MaxSize == 5

\* ---------------------------------------------------------------- Rule
\* enum Rule, #[repr(u8)]: the discriminants in declaration order
Ascii == 0
Length == 9

RuleNames ==
    << "ascii", "alphanumeric", "email", "url", "ip", "ipv4", "ipv6",
       "credit_card", "phone_number", "length", "bounds", "contains",
       "prefix", "suffix", "pattern", "custom" >>

\* Rule::name
name(rule) == RuleNames[rule.kind + 1]

\* Rule::discriminant
discriminant(rule) == rule.kind

\* PartialEq as #[derive(PartialEq)] would give it: the arguments compared too
eq_derived(a, b) == a = b

\* impl PartialEq for Rule
eq(a, b) == discriminant(a) = discriminant(b)

\* impl Ord for Rule (cmp(a, b) = Less)
lt(a, b) == discriminant(a) < discriminant(b)

\* BTreeSet<Rule>::contains
contains(rules, rule) == \E r \in rules : eq(r, rule)

\* BTreeSet<Rule>::insert: an element equal to one already there is not added
insert(rules, rule) == IF contains(rules, rule) THEN rules ELSE rules \cup {rule}

\* BTreeSet<Rule>::iter: ascending by Ord
RECURSIVE iter(_)
iter(rules) ==
    IF rules = {} THEN << >>
    ELSE LET first == CHOOSE r \in rules : \A o \in rules : ~lt(o, r)
         IN  << first >> \o iter(rules \ {first})

\* the rules a field annotation can name in the model: ascii, and length with
\* two different argument lists (min = 1 / max = 2)
InputRules ==
    { [kind |-> Ascii, arg |-> 0], [kind |-> Length, arg |-> 1],
      [kind |-> Length, arg |-> 2] }

\* the values of rename = "..."
Aliases == { "x" }

\* the identifiers of the declared fields, by declared position
FieldNames == << "a", "b", "c", "d", "e", "f", "g", "h" >>

\* ---------------------------------------------------------------- state
VARIABLES
    pc,        \* position in derive_validate / parse_fields / parse_variants
    data,      \* input.data: "named", "unnamed", "unit", "enum", "union"
    size,      \* syntax nodes of the input read so far
    nfields,   \* fields read so far; the field being read is field number nfields
    errors,    \* derive_validate: errors, Vec<Error>
    context,   \* parse_context: inner, "None" or "Some"
    variants,  \* parse_variants: out
    vkind,     \* the Fields kind handed to the running parse_fields
    out,       \* parse_fields: out
    field,     \* parse_fields: the field of the current iteration and its locals
    inner,     \* parse_input_kind: the InputKind
    output,    \* derive_validate: "none", "errors" or "impl"
    run,       \* the last call of the generated validate
    statics,   \* the `static PATTERN` items of the generated code
    threads    \* the threads that call the generated validate concurrently

vars ==
    << pc, data, size, nfields, errors, context, variants, vkind, out, field,
       inner, output, run, statics, threads >>

Error(msg, rulename, f, m) == [msg |-> msg, name |-> rulename, f |-> f, m |-> m]

NoField == [pos |-> 0, metas |-> << >>, skip |-> FALSE, dive |-> FALSE,
            alias |-> "", rules |-> {}]

\* ---------------------------------------------------------------- Errors
\* ::garde::error::Errors, the error tree
Tree(tag, errs, map, list) == [tag |-> tag, errs |-> errs, map |-> map, list |-> list]

\* Errors::empty()
EmptyTree == Tree("Empty", << >>, << >>, << >>)

\* Errors::simple(|errors| ...): the errors pushed, in the order of the pushes
Simple(errs) == Tree("Simple", errs, << >>, << >>)

\* Errors::fields(|errors| ...): errors.insert(key, tree) sets the entry of key
RECURSIVE fields_insert(_, _, _)
fields_insert(map, key, tree) ==
    IF map = << >> THEN << << key, tree >> >>
    ELSE IF Head(map)[1] = key THEN << << key, tree >> >> \o Tail(map)
         ELSE << Head(map) >> \o fields_insert(Tail(map), key, tree)

FieldMap(map) == Tree("Fields", << >>, map, << >>)

\* Errors::list(|errors| ...): errors.push(tree) appends an entry
List(list) == Tree("List", << >>, << >>, list)

\* what no call has produced yet
NoTree == Tree("None", << >>, << >>, << >>)

\* the value of the block {}
UnitValue == Tree("()", << >>, << >>, << >>)

\* Errors::is_empty: no leaf holds an error
RECURSIVE is_empty(_)
is_empty(tree) ==
    /\ tree.errs = << >>
    /\ \A i \in 1..Len(tree.map) : is_empty(tree.map[i][2])
    /\ \A i \in 1..Len(tree.list) : is_empty(tree.list[i])

\* the error a rule evaluator returns for the value at a declared position
Violation(kind, at) == [kind |-> kind, at |-> at]

NoRun ==
    [active |-> 0, fails |-> {}, nested |-> << >>, tree |-> NoTree,
     result |-> "none", calls |-> << >>]

\* ---------------------------------------------------------------- parse_context
\* parse_context: every garde attribute of the container either gives the
\* context type (the last one wins) or pushes its parse error
RECURSIVE parse_context(_, _)
parse_context(attrs, acc) ==
    IF attrs = << >> THEN acc
    ELSE IF Head(attrs) = "bad"
         THEN parse_context(Tail(attrs),
                  [acc EXCEPT !.errs = Append(@, Error("unrecognized attribute", "", 0, 0))])
         ELSE parse_context(Tail(attrs), [acc EXCEPT !.inner = "Some"])

\* the container attribute lists of the model
ContextInputs == { << >>, << "context" >>, << "bad" >> }

\* ---------------------------------------------------------------- parse_fields
\* the annotations of a field, as RuleOrAttr::parse returns them
Metas ==
    [t : {"rule"}, rule : InputRules, alias : {""}]
        \cup [t : {"rename"}, rule : {[kind |-> Ascii, arg |-> 0]}, alias : Aliases]
        \cup [t : {"dive", "skip", "unknown"}, rule : {[kind |-> Ascii, arg |-> 0]}, alias : {""}]

Step(fld, errs) == [field |-> fld, errs |-> errs]

\* the two tests of a rule in the other order: the duplicate first
on_rule_duplicate_first(fld, rule, f, m) ==
    IF contains(fld.rules, rule)
    THEN Step(fld, << Error("duplicate rule", name(rule), f, m) >>)
    ELSE IF fld.dive
         THEN Step(fld, << Error("may not be used together with dive", name(rule), f, m) >>)
         ELSE Step([fld EXCEPT !.rules = insert(@, rule)], << >>)

\* RuleOrAttr::Rule(span, rule) =>
on_rule(fld, rule, f, m) ==
    IF fld.dive
    THEN Step(fld, << Error("may not be used together with dive", name(rule), f, m) >>)
    ELSE IF contains(fld.rules, rule)
         THEN Step(fld, << Error("duplicate rule", name(rule), f, m) >>)
         ELSE Step([fld EXCEPT !.rules = insert(@, rule)], << >>)

\* Attr::Alias(v) =>
on_alias(fld, v, f, m) ==
    IF fld.alias # ""
    THEN Step(fld, << Error("duplicate attribute", "rename", f, m) >>)
    ELSE Step([fld EXCEPT !.alias = v], << >>)

\* Attr::Dive =>
on_dive(fld, f, m) ==
    IF fld.dive
    THEN Step(fld, << Error("duplicate attribute", "dive", f, m) >>)
    ELSE Step([fld EXCEPT !.dive = TRUE], << >>)

\* Attr::Skip =>
on_skip(fld, f, m) ==
    IF fld.skip
    THEN Step(fld, << Error("duplicate attribute", "skip", f, m) >>)
    ELSE Step([fld EXCEPT !.skip = TRUE], << >>)

\* RuleOrAttr::Unknown(span) =>
on_unknown(fld, f, m) == Step(fld, << Error("unrecognized rule", "", f, m) >>)

\* one iteration of `for meta in meta_list`
on_meta(fld, meta, f, m) ==
    CASE meta.t = "rule" -> on_rule(fld, meta.rule, f, m)
      [] meta.t = "rename" -> on_alias(fld, meta.alias, f, m)
      [] meta.t = "dive" -> on_dive(fld, f, m)
      [] meta.t = "skip" -> on_skip(fld, f, m)
      [] OTHER -> on_unknown(fld, f, m)

\* the completeness test without its skip condition
no_validation_ignoring_skip(fld) == ~fld.dive /\ fld.rules = {}

\* the test that ends an iteration of `for field in fields`
no_validation(fld) == ~fld.dive /\ fld.rules = {} /\ ~fld.skip

\* whether the field is pushed to out
retained(fld) == ~no_validation(fld) /\ ~fld.skip

\* Field { ty, dive, rules } with its ident; ty and ident are those of the
\* declared field at position pos
Field(fld) == [pos |-> fld.pos, dive |-> fld.dive, rules |-> fld.rules]

\* the end of an iteration of `for field in fields`: the completeness test,
\* then the push of the fields that are not skipped
end_field(fld, o, f) ==
    IF no_validation(fld)
    THEN [out |-> o, errs |-> << Error("field has no validation", "", f, 0) >>]
    ELSE IF ~fld.skip
         THEN [out |-> Append(o, Field(fld)), errs |-> << >>]
         ELSE [out |-> o, errs |-> << >>]

\* ---------------------------------------------------------------- InputKind
NoInner == [kind |-> "none", fields |-> << >>, variants |-> << >>, declared |-> 0]

\* InputKind::FieldStruct / InputKind::TupleStruct; declared is the number of
\* fields of the declared type
StructKind(kind, fields, declared) ==
    [kind |-> kind, fields |-> fields, variants |-> << >>, declared |-> declared]

\* InputKind::Enum
EnumKind(vs) == [kind |-> "Enum", fields |-> << >>, variants |-> vs, declared |-> 0]

\* Variant { ident, kind }: the ident is the position in the enum
Variant(kind, fields, declared) == [kind |-> kind, fields |-> fields, declared |-> declared]

DataKinds == { "named", "unnamed", "unit", "enum", "union" }

\* ---------------------------------------------------------------- actions
Init ==
    /\ pc = "context"
    /\ data \in DataKinds
    /\ size = 0
    /\ nfields = 0
    /\ errors = << >>
    /\ context = "None"
    /\ variants = << >>
    /\ vkind = "none"
    /\ out = << >>
    /\ field = NoField
    /\ inner = NoInner
    /\ output = "none"
    /\ run = NoRun
    /\ statics = << >>
    /\ threads = << >>

\* derive_validate: let context = parse_context(&input.attrs, &mut errors)
ParseContext ==
    /\ pc = "context"
    /\ \E attrs \in ContextInputs :
         LET r == parse_context(attrs, [inner |-> "None", errs |-> << >>])
         IN  /\ size + Len(attrs) <= MaxSize
             /\ context' = r.inner
             /\ errors' = errors \o r.errs
             /\ size' = size + Len(attrs)
    /\ pc' = "input"
    /\ UNCHANGED << data, nfields, variants, vkind, out, field, inner, output, run, statics, threads >>

\* parse_input_kind, Data::Union: the Err is pushed by derive_validate, which
\* returns emit_errors(errors)
InputUnion ==
    /\ pc = "input"
    /\ data = "union"
    /\ errors' = Append(errors, Error("unions are not supported", "", 0, 0))
    /\ output' = "errors"
    /\ pc' = "done"
    /\ UNCHANGED << data, size, nfields, context, variants, vkind, out, field, inner, run, statics, threads >>

\* parse_input_kind, syn::Fields::Unit
InputUnit ==
    /\ pc = "input"
    /\ data = "unit"
    /\ inner' = StructKind("TupleStruct", << >>, 0)
    /\ pc' = "check"
    /\ UNCHANGED << data, size, nfields, errors, context, variants, vkind, out, field, output, run, statics, threads >>

\* parse_input_kind, Fields::Named / Fields::Unnamed: parse_fields is entered
InputStruct ==
    /\ pc = "input"
    /\ data \in { "named", "unnamed" }
    /\ vkind' = data
    /\ out' = << >>
    /\ field' = NoField
    /\ pc' = "fields"
    /\ UNCHANGED << data, size, nfields, errors, context, variants, inner, output, run, statics, threads >>

\* parse_input_kind, Data::Enum: parse_variants is entered
InputEnum ==
    /\ pc = "input"
    /\ data = "enum"
    /\ pc' = "variants"
    /\ UNCHANGED << data, size, nfields, errors, context, variants, vkind, out, field, inner, output, run, statics, threads >>

\* parse_variants: a unit variant
VariantUnit ==
    /\ pc = "variants"
    /\ size < MaxSize
    /\ size' = size + 1
    /\ variants' = Append(variants, Variant("Unit", << >>, 0))
    /\ UNCHANGED << pc, data, nfields, errors, context, vkind, out, field, inner, output, run, statics, threads >>

\* parse_variants: a variant with named or unnamed fields enters parse_fields
VariantFields ==
    /\ pc = "variants"
    /\ size < MaxSize
    /\ size' = size + 1
    /\ \E k \in { "named", "unnamed" } : vkind' = k
    /\ out' = << >>
    /\ field' = NoField
    /\ pc' = "fields"
    /\ UNCHANGED << data, nfields, errors, context, variants, inner, output, run, statics, threads >>

\* parse_fields: `for field in fields` takes the next field
BeginField ==
    /\ pc = "fields"
    /\ size < MaxSize
    /\ size' = size + 1
    /\ nfields' = nfields + 1
    /\ field' = [NoField EXCEPT !.pos = field.pos + 1]
    /\ pc' = "attrs"
    /\ UNCHANGED << data, errors, context, variants, vkind, out, inner, output, run, statics, threads >>

\* parse_fields: a garde attribute of the field does not parse
AttrError ==
    /\ pc = "attrs"
    /\ size < MaxSize
    /\ size' = size + 1
    /\ errors' = Append(errors, Error("attribute does not parse", "", nfields, Len(field.metas) + 1))
    /\ field' = [field EXCEPT !.metas = Append(@, [t |-> "error", rule |-> [kind |-> Ascii, arg |-> 0], alias |-> ""])]
    /\ UNCHANGED << pc, data, nfields, context, variants, vkind, out, inner, output, run, statics, threads >>

\* parse_fields: `for meta in meta_list` takes the next annotation
ReadMeta ==
    /\ pc = "attrs"
    /\ size < MaxSize
    /\ size' = size + 1
    /\ \E meta \in Metas :
         LET r == on_meta(field, meta, nfields, Len(field.metas) + 1)
         IN  /\ field' = [r.field EXCEPT !.metas = Append(@, meta)]
             /\ errors' = errors \o r.errs
    /\ UNCHANGED << pc, data, nfields, context, variants, vkind, out, inner, output, run, statics, threads >>

\* parse_fields: the attributes of the field are exhausted
EndField ==
    /\ pc = "attrs"
    /\ LET r == end_field(field, out, nfields)
       IN  /\ out' = r.out
           /\ errors' = errors \o r.errs
    /\ pc' = "fields"
    /\ UNCHANGED << data, size, nfields, context, variants, vkind, field, inner, output, run, statics, threads >>

\* parse_fields returns out to parse_input_kind
EndStruct ==
    /\ pc = "fields"
    /\ data \in { "named", "unnamed" }
    /\ inner' = StructKind(IF data = "named" THEN "FieldStruct" ELSE "TupleStruct", out, field.pos)
    /\ pc' = "check"
    /\ UNCHANGED << data, size, nfields, errors, context, variants, vkind, out, field, output, run, statics, threads >>

\* parse_fields returns out to parse_variants, which pushes the Variant
EndVariant ==
    /\ pc = "fields"
    /\ data = "enum"
    /\ variants' = Append(variants, Variant(IF vkind = "named" THEN "Struct" ELSE "Tuple", out, field.pos))
    /\ pc' = "variants"
    /\ UNCHANGED << data, size, nfields, errors, context, vkind, out, field, inner, output, run, statics, threads >>

\* parse_variants returns out
EndEnum ==
    /\ pc = "variants"
    /\ inner' = EnumKind(variants)
    /\ pc' = "check"
    /\ UNCHANGED << data, size, nfields, errors, context, variants, vkind, out, field, output, run, statics, threads >>

\* derive_validate without the test of errors.is_empty()
emitted_unchecked(errs) == "impl"

\* derive_validate: what is returned when parse_input_kind was Ok
emitted(errs) == IF errs # << >> THEN "errors" ELSE "impl"

Finish ==
    /\ pc = "check"
    /\ output' = emitted(errors)
    /\ pc' = "done"
    /\ UNCHANGED << data, size, nfields, errors, context, variants, vkind, out, field, inner, run, statics, threads >>

\* ---------------------------------------------------------------- generated code
\* Field::emit, access: the declared position whose value the emitted code
\* reads.  &self.#key and the binding #key read the field named key;
\* &self.#index reads position index of the tuple; the binding _index is the
\* one at position index of the pattern (_0, _1, ...)
emit_access(kind, fld, index) ==
    IF kind \in { "FieldStruct", "FieldEnum" } THEN fld.pos ELSE index + 1

\* Field::emit, key: Some(key.to_string()) or None ("")
emit_key(kind, fld) ==
    IF kind \in { "FieldStruct", "FieldEnum" } THEN FieldNames[fld.pos] ELSE ""

\* Field::emit, add_fn
emit_add_fn(kind) == IF kind \in { "FieldStruct", "FieldEnum" } THEN "insert" ELSE "push"

Call(at, fn) == [at |-> at, fn |-> fn]

NoEval == [errs |-> << >>, calls |-> << >>]

\* the rules run with `?`: the first failure ends the field
RECURSIVE run_rules_first_failure(_, _, _, _)
run_rules_first_failure(rs, access, fails, acc) ==
    IF rs = << >> THEN acc
    ELSE LET r == Head(rs)
             failed == << access, r.kind >> \in fails
             next == [errs |-> IF failed THEN Append(acc.errs, Violation(r.kind, access))
                                         ELSE acc.errs,
                      calls |-> Append(acc.calls, Call(access, name(r)))]
         IN  IF failed THEN next
             ELSE run_rules_first_failure(Tail(rs), access, fails, next)

\* the statements `if let Err(error) = (#rule)(#access, #args) { errors.push(error) }`
\* in the order of self.rules.iter(): fails holds the (position, kind) pairs
\* whose evaluator returns Err
RECURSIVE run_rules(_, _, _, _)
run_rules(rs, access, fails, acc) ==
    IF rs = << >> THEN acc
    ELSE LET r == Head(rs)
             failed == << access, r.kind >> \in fails
         IN  run_rules(Tail(rs), access, fails,
                 [errs |-> IF failed THEN Append(acc.errs, Violation(r.kind, access))
                                     ELSE acc.errs,
                  calls |-> Append(acc.calls, Call(access, name(r)))])

\* the nested tree wrapped in a layer of its own
dive_error_wrapped(res) == IF res.ok THEN EmptyTree ELSE List(<< res.tree >>)

\* Validate::validate(#access, ctx).err().unwrap_or_else(|| Errors::empty())
dive_error(res) == IF res.ok THEN EmptyTree ELSE res.tree

\* Field::emit, error: the entry of the field and the evaluator calls made for it
field_error(fld, access, inst) ==
    IF fld.dive
    THEN [tree |-> dive_error(inst.nested[access]),
          calls |-> << Call(access, "validate") >>]
    ELSE LET r == run_rules(iter(fld.rules), access, inst.fails, NoEval)
         IN  [tree |-> Simple(r.errs), calls |-> r.calls]

NoEntries == [map |-> << >>, list |-> << >>, calls |-> << >>]

\* the fields evaluated until the first one that fails
RECURSIVE emit_fields_until_failure(_, _, _, _, _)
emit_fields_until_failure(fields, index, kind, inst, acc) ==
    IF index >= Len(fields) THEN acc
    ELSE LET fld == fields[index + 1]
             e == field_error(fld, emit_access(kind, fld, index), inst)
             next == [map |-> IF emit_add_fn(kind) = "insert"
                              THEN fields_insert(acc.map, emit_key(kind, fld), e.tree)
                              ELSE acc.map,
                      list |-> IF emit_add_fn(kind) = "push"
                               THEN Append(acc.list, e.tree)
                               ELSE acc.list,
                      calls |-> acc.calls \o e.calls]
         IN  IF ~is_empty(e.tree) THEN next
             ELSE emit_fields_until_failure(fields, index + 1, kind, inst, next)

\* #(#fields)*: the statements errors.#add_fn(#key #error) of the fields, in
\* the order of the Vec, each with its enumerate() index
RECURSIVE emit_fields(_, _, _, _, _)
emit_fields(fields, index, kind, inst, acc) ==
    IF index >= Len(fields) THEN acc
    ELSE LET fld == fields[index + 1]
             e == field_error(fld, emit_access(kind, fld, index), inst)
         IN  emit_fields(fields, index + 1, kind, inst,
                 [map |-> IF emit_add_fn(kind) = "insert"
                          THEN fields_insert(acc.map, emit_key(kind, fld), e.tree)
                          ELSE acc.map,
                  list |-> IF emit_add_fn(kind) = "push"
                           THEN Append(acc.list, e.tree)
                           ELSE acc.list,
                  calls |-> acc.calls \o e.calls])

\* impl ToTokens for VariantKind: the value of the arm and the calls it makes
variant_arm(v, inst) ==
    CASE v.kind = "Unit" -> [tree |-> UnitValue, calls |-> << >>]
      [] v.kind = "Struct" ->
            LET r == emit_fields(v.fields, 0, "FieldEnum", inst, NoEntries)
            IN  [tree |-> FieldMap(r.map), calls |-> r.calls]
      [] OTHER ->
            LET r == emit_fields(v.fields, 0, "TupleEnum", inst, NoEntries)
            IN  [tree |-> List(r.list), calls |-> r.calls]

\* impl ToTokens for Validation: let errors = #inner
validation_inner(shape, inst) ==
    CASE shape.kind = "FieldStruct" ->
            LET r == emit_fields(shape.fields, 0, "FieldStruct", inst, NoEntries)
            IN  [tree |-> FieldMap(r.map), calls |-> r.calls]
      [] shape.kind = "TupleStruct" ->
            LET r == emit_fields(shape.fields, 0, "TupleStruct", inst, NoEntries)
            IN  [tree |-> List(r.list), calls |-> r.calls]
      [] OTHER -> variant_arm(shape.variants[inst.active], inst)

\* impl ToTokens for Validation: if !errors.is_empty() { return Err(errors) } Ok(())
validate_result(tree) == IF ~is_empty(tree) THEN "Err" ELSE "Ok"

\* whether rustc accepts the arm of a variant: the value of every arm is the
\* Errors bound to `errors`, and the pattern names every declared field
arm_typed(v) == v.kind # "Unit" /\ Len(v.fields) = v.declared

\* whether the generated impl compiles
well_typed(shape) ==
    shape.kind = "Enum" => \A i \in 1..Len(shape.variants) : arm_typed(shape.variants[i])

\* the fields the call evaluates
active_fields(shape, active) ==
    IF shape.kind = "Enum" THEN shape.variants[active].fields ELSE shape.fields

\* the emit kind of the fields of the shape
emit_kind(shape, active) ==
    CASE shape.kind = "FieldStruct" -> "FieldStruct"
      [] shape.kind = "TupleStruct" -> "TupleStruct"
      [] shape.variants[active].kind = "Struct" -> "FieldEnum"
      [] OTHER -> "TupleEnum"

\* what a nested validate returns: Ok(()), or Err of a tree of its own
NestedResults ==
    { [ok |-> TRUE, tree |-> EmptyTree],
      [ok |-> FALSE, tree |-> Simple(<< Violation(Ascii, 0) >>)],
      [ok |-> FALSE, tree |-> FieldMap(<< << "n", Simple(<< Violation(Length, 0) >>) >> >>)] }

\* the rule evaluations the call of the active variant can make
checks(shape, active) ==
    LET fs == active_fields(shape, active)
        k == emit_kind(shape, active)
    IN  UNION { { << emit_access(k, fs[i], i - 1), r.kind >> : r \in fs[i].rules } :
                  i \in 1..Len(fs) }

\* the positions whose value the call hands to a nested validate
dives(shape, active) ==
    LET fs == active_fields(shape, active)
        k == emit_kind(shape, active)
    IN  { emit_access(k, fs[i], i - 1) : i \in { j \in 1..Len(fs) : fs[j].dive } }

\* a call of the generated validate(&self, ctx) on an instance: its active
\* variant, the rule evaluations that fail on its values, and the result of
\* the nested validate of each value it is handed to
Validate ==
    /\ pc = "done"
    /\ output = "impl"
    /\ well_typed(inner)
    /\ run = NoRun
    /\ \E a \in (IF inner.kind = "Enum" THEN 1..Len(inner.variants) ELSE { 0 }) :
       \E fs \in SUBSET checks(inner, a) :
       \E n \in [dives(inner, a) -> NestedResults] :
         LET inst == [active |-> a, fails |-> fs, nested |-> n]
             r == validation_inner(inner, inst)
         IN  run' = [active |-> inst.active, fails |-> inst.fails,
                     nested |-> inst.nested, tree |-> r.tree,
                     result |-> validate_result(r.tree), calls |-> r.calls]
    /\ UNCHANGED << pc, data, size, nfields, errors, context, variants, vkind, out, field, inner, output, statics, threads >>

\* the caller drops the result; validate keeps no state between calls
Return ==
    /\ pc = "done"
    /\ run # NoRun
    /\ run' = NoRun
    /\ UNCHANGED << pc, data, size, nfields, errors, context, variants, vkind, out, field, inner, output, statics, threads >>

Next ==
    \/ ParseContext
    \/ InputUnion
    \/ InputUnit
    \/ InputStruct
    \/ InputEnum
    \/ VariantUnit
    \/ VariantFields
    \/ BeginField
    \/ AttrError
    \/ ReadMeta
    \/ EndField
    \/ EndStruct
    \/ EndVariant
    \/ EndEnum
    \/ Finish
    \/ Validate
    \/ Return

Spec == Init /\ [][Next]_vars

\* ---------------------------------------------------------------- properties
\* `field` is a declared field (the one being read, or the last one read);
\* its errors carry f = nfields
InField == field.pos > 0

\* the field's annotations are exhausted and the end of the iteration has run
FieldEnded == InField /\ pc # "attrs"

IsRule(meta) == meta.t = "rule"

HasRule(metas) == \E i \in 1..Len(metas) : IsRule(metas[i])

HasMarker(metas, t) == \E i \in 1..Len(metas) : metas[i].t = t

\* the annotation at m is a rule whose kind an earlier rule annotation has
Repeated(metas, m) ==
    /\ IsRule(metas[m])
    /\ \E j \in 1..(m - 1) : IsRule(metas[j]) /\ metas[j].rule.kind = metas[m].rule.kind

\* the errors reported for annotation m of the field
ErrorsAt(m) == { i \in 1..Len(errors) : errors[i].f = nfields /\ errors[i].m = m }

\* the errors reported for the field
FieldErrors == { i \in 1..Len(errors) : errors[i].f = nfields }

DistinctKinds(rules) == \A a \in rules, b \in rules : a.kind = b.kind => a = b

\* C1: a field whose annotations contain dive and a rule, in either order, is
\* reported with "`<name>` may not be used together with dive", and every
\* Field of out has dive => rules empty
C1_DiveExcludesRules ==
    /\ (FieldEnded /\ HasMarker(field.metas, "dive") /\ HasRule(field.metas))
          => \E i \in FieldErrors : errors[i].msg = "may not be used together with dive"
    /\ \A i \in 1..Len(out) : out[i].dive => out[i].rules = {}

\* C2 as stated: every repeated occurrence of a rule kind on a field causes
\* exactly one "duplicate rule `<name>`" error
C2_DuplicatePerOccurrence ==
    InField =>
        \A m \in 1..Len(field.metas) :
            Repeated(field.metas, m) =>
                /\ Cardinality(ErrorsAt(m)) = 1
                /\ \A i \in ErrorsAt(m) :
                      /\ errors[i].msg = "duplicate rule"
                      /\ errors[i].name = name(field.metas[m].rule)

\* C2 amended: a repeated occurrence of a rule kind is not added and causes
\* exactly one error, "duplicate rule `<name>`" when no dive precedes it on
\* the field and "`<name>` may not be used together with dive" otherwise; the
\* rule sets hold pairwise distinct kinds (the first occurrence's arguments)
\* and the shape is not promoted to synthesis
C2_DuplicateRule ==
    /\ InField =>
        /\ \A m \in 1..Len(field.metas) :
              Repeated(field.metas, m) =>
                  /\ Cardinality(ErrorsAt(m)) = 1
                  /\ \A i \in ErrorsAt(m) :
                        /\ errors[i].name = name(field.metas[m].rule)
                        /\ errors[i].msg =
                              IF \E j \in 1..(m - 1) : field.metas[j].t = "dive"
                              THEN "may not be used together with dive"
                              ELSE "duplicate rule"
                  /\ output # "impl"
        /\ DistinctKinds(field.rules)
        /\ \A r \in field.rules :
              \E m \in 1..Len(field.metas) :
                  /\ field.metas[m] = [t |-> "rule", rule |-> r, alias |-> ""]
                  /\ ~Repeated(field.metas, m)
    /\ \A i \in 1..Len(out) : DistinctKinds(out[i].rules)
    /\ \A i \in 1..Len(inner.fields) : DistinctKinds(inner.fields[i].rules)
    /\ \A v \in 1..Len(variants) :
          \A i \in 1..Len(variants[v].fields) : DistinctKinds(variants[v].fields[i].rules)

\* C2 witness: length(min = 1), length(max = 2) on one field, the second
\* reported as a duplicate and the derive ended without an impl
C2_Witness ==
    /\ pc = "done"
    /\ InField
    /\ Len(field.metas) = 2
    /\ field.metas[1] = [t |-> "rule", rule |-> [kind |-> Length, arg |-> 1], alias |-> ""]
    /\ field.metas[2] = [t |-> "rule", rule |-> [kind |-> Length, arg |-> 2], alias |-> ""]
    /\ \E i \in ErrorsAt(2) : errors[i].msg = "duplicate rule" /\ errors[i].name = "length"
    /\ output = "errors"

\* C3: a field that ends with no rule, no dive and no skip is reported with
\* "field has no validation", is not part of out and fails the derive; a field
\* with a rule, dive or skip is never reported so
C3_NoValidation ==
    LET reported == \E i \in FieldErrors : errors[i].msg = "field has no validation"
        marked == field.rules # {} \/ field.dive \/ field.skip
    IN  /\ (InField /\ pc = "attrs") => ~reported
        /\ FieldEnded =>
              /\ ~marked => (reported /\ \A i \in 1..Len(out) : out[i].pos # field.pos)
              /\ marked => ~reported
              /\ (HasRule(field.metas) \/ HasMarker(field.metas, "dive")
                    \/ HasMarker(field.metas, "skip")) => ~reported
              /\ reported => output # "impl"
              /\ (reported /\ pc = "done") => output = "errors"

\* C3 witness: a field that carries only a rename has ended and is reported
C3_Witness ==
    /\ FieldEnded
    /\ pc = "done"
    /\ Len(field.metas) = 1
    /\ field.metas[1].t = "rename"
    /\ \E i \in FieldErrors : errors[i].msg = "field has no validation"
    /\ output = "errors"

\* a field of the declared type is offending: a repeated rule kind, a rule
\* together with dive, a repeated marker, an annotation that is not
\* recognized or does not parse, or no validation at all
Offending(metas) ==
    \/ \E m \in 1..Len(metas) : Repeated(metas, m)
    \/ HasRule(metas) /\ HasMarker(metas, "dive")
    \/ \E m \in 1..Len(metas) :
          /\ metas[m].t \in { "dive", "skip", "rename" }
          /\ \E j \in 1..(m - 1) : metas[j].t = metas[m].t
    \/ HasMarker(metas, "unknown")
    \/ HasMarker(metas, "error")
    \/ ~HasRule(metas) /\ ~HasMarker(metas, "dive") /\ ~HasMarker(metas, "skip")

\* C4: every offending field contributes an error of its own, and so does
\* every annotation that is not recognized, does not parse or repeats a marker
C4_EveryOffendingReported ==
    FieldEnded =>
        /\ Offending(field.metas) => FieldErrors # {}
        /\ \A m \in 1..Len(field.metas) :
              (\/ field.metas[m].t \in { "unknown", "error" }
               \/ /\ field.metas[m].t \in { "dive", "skip", "rename" }
                  /\ \E j \in 1..(m - 1) : field.metas[j].t = field.metas[m].t)
                 => ErrorsAt(m) # {}

\* C5: derive_validate returns the impl if and only if no definition error
\* was recorded, and the error reports alone otherwise
C5_ImplIffNoErrors ==
    /\ pc = "done" =>
          /\ output \in { "impl", "errors" }
          /\ output = "impl" <=> errors = << >>
          /\ output = "errors" <=> errors # << >>
    /\ pc # "done" => output = "none"
    /\ run # NoRun => (output = "impl" /\ errors = << >>)

\* C5 witness: errors from the context attribute and from a field of a
\* variant were recorded, and the output is the error reports
C5_Witness ==
    /\ pc = "done"
    /\ data = "enum"
    /\ output = "errors"
    /\ \E i \in 1..Len(errors) : errors[i].msg = "unrecognized attribute"
    /\ \E i \in 1..Len(errors) : errors[i].f > 0

\* ---------------------------------------------------------------- validate
\* a call of the generated validate has returned
Called == run # NoRun

\* the fields, the emit kind and the positions read by the last call
RunFields == active_fields(inner, run.active)

RunAccess(i) == emit_access(emit_kind(inner, run.active), RunFields[i], i - 1)

\* the entry the call stored for the i-th field of the shape
RunEntry(i) ==
    IF emit_add_fn(emit_kind(inner, run.active)) = "insert"
    THEN run.tree.map[i][2]
    ELSE run.tree.list[i]

RunEntries ==
    IF emit_add_fn(emit_kind(inner, run.active)) = "insert"
    THEN Len(run.tree.map)
    ELSE Len(run.tree.list)

\* the evaluator calls made on the value at a position, in order
CallsAt(at) == SelectSeq(run.calls, LAMBDA c : c.at = at)

\* the rule kinds of a field whose evaluator fails on the instance
Failing(i) == { r.kind : r \in { x \in RunFields[i].rules : << RunAccess(i), x.kind >> \in run.fails } }

C7_WholeShape ==
    Called =>
        /\ RunEntries = Len(RunFields)
        /\ \A i \in 1..Len(RunFields) : CallsAt(RunAccess(i)) # << >>
        /\ run.result \in { "Ok", "Err" }
        /\ run.result = "Err" <=>
              \E i \in 1..Len(RunFields) :
                  \/ ~RunFields[i].dive /\ Failing(i) # {}
                  \/ RunFields[i].dive /\ ~run.nested[RunAccess(i)].ok
        /\ run.result = "Err" <=> ~is_empty(run.tree)

\* C7 witness: the first of two fields failed and the second was evaluated
\* and failed too
C7_Witness ==
    /\ Called
    /\ Len(RunFields) = 2
    /\ RunEntries = 2
    /\ ~is_empty(RunEntry(1))
    /\ ~is_empty(RunEntry(2))
    /\ run.result = "Err"

PassingInstance(active) ==
    [active |-> active, fails |-> {},
     nested |-> [p \in 1..MaxSize |-> [ok |-> TRUE, tree |-> EmptyTree]]]

\* C9: the arm of a record-like variant builds a FieldMap, the arm of a
\* tuple-like variant a List, and the arm of a unit variant the Empty tree,
\* for which validate returns Ok(())
C9_UnionDispatch ==
    (pc = "done" /\ output = "impl" /\ inner.kind = "Enum") =>
        \A v \in 1..Len(inner.variants) :
            LET arm == variant_arm(inner.variants[v], PassingInstance(v)).tree
            IN  /\ inner.variants[v].kind = "Struct" => arm.tag = "Fields"
                /\ inner.variants[v].kind = "Tuple" => arm.tag = "List"
                /\ inner.variants[v].kind = "Unit" =>
                      /\ arm = EmptyTree
                      /\ well_typed(inner)

\* `field` is the last field of the shape the last call evaluated, and it
\* was retained
LastFieldRun ==
    /\ Called
    /\ InField
    /\ inner.kind = "Enum" => run.active = Len(inner.variants)
    /\ retained(field)

\* C10: the FieldMap of a record shape has one entry per retained field,
\* keyed by the field's rename key when it carries rename = "text" and by its
\* name otherwise
C10_RenameKey ==
    (Called /\ emit_add_fn(emit_kind(inner, run.active)) = "insert") =>
        /\ Len(run.tree.map) = Len(RunFields)
        /\ LastFieldRun =>
              run.tree.map[Len(run.tree.map)][1] =
                  IF field.alias # "" THEN field.alias ELSE FieldNames[field.pos]

\* ---------------------------------------------------------------- tuple shapes
\* the last call ran on a tuple shape or a tuple-like variant
TupleRun == Called /\ emit_add_fn(emit_kind(inner, run.active)) = "push"

\* C11: for a tuple shape the List has one entry per retained field, in
\* declaration order, and the entry of the retained field declared at
\* position p is computed from the value at position p: its evaluators are
\* called on that value and its errors name it, also when a field declared
\* before it carries skip
C11_TupleOwnPosition ==
    TupleRun =>
        /\ Len(run.tree.list) = Len(RunFields)
        /\ \A i \in 1..Len(RunFields), j \in 1..Len(RunFields) :
              i < j => RunFields[i].pos < RunFields[j].pos
        /\ \A i \in 1..Len(RunFields) :
              /\ RunAccess(i) = RunFields[i].pos
              /\ CallsAt(RunFields[i].pos) # << >>
              /\ \A k \in 1..Len(RunEntry(i).errs) :
                    RunEntry(i).errs[k].at = RunFields[i].pos

\* ---------------------------------------------------------------- skip
\* the declared positions of the shape the last call ran on that no Field of
\* the shape has: the fields parse_fields has not pushed
Dropped ==
    LET declared == IF inner.kind = "Enum" THEN inner.variants[run.active].declared
                    ELSE inner.declared
    IN  { p \in 1..declared : \A i \in 1..Len(RunFields) : RunFields[i].pos # p }

\* the parse side of C12: a field that carries skip is in no shape, whatever
\* else it carries and wherever skip stands, and a field that carries only
\* skip is not reported
SkipDropped ==
    /\ InField => (field.skip <=> HasMarker(field.metas, "skip"))
    /\ (FieldEnded /\ HasMarker(field.metas, "skip")) =>
          /\ \A i \in 1..Len(out) : out[i].pos # field.pos
          /\ \A i \in FieldErrors : errors[i].msg # "field has no validation"
          /\ pc \in { "check", "done" } =>
                /\ \A i \in 1..Len(inner.fields) : inner.fields[i].pos # field.pos
                /\ (inner.kind = "Enum" /\ inner.variants # << >>) =>
                      LET last == inner.variants[Len(inner.variants)]
                      IN  \A i \in 1..Len(last.fields) : last.fields[i].pos # field.pos
    /\ (FieldEnded /\ Len(field.metas) = 1 /\ field.metas[1].t = "skip")
          => FieldErrors = {}

\* C12: a field that carries skip is never part of the shape parse_fields
\* returns, whatever other annotations it carries and in whatever order; no
\* evaluator is called on its value and the error tree has no entry for it;
\* a field carrying only skip produces no definition error
C12_SkipWins ==
    /\ SkipDropped
    /\ Called =>
          /\ RunEntries = Len(RunFields)
          /\ \A p \in Dropped : CallsAt(p) = << >>
          /\ \A i \in 1..RunEntries :
                \A k \in 1..Len(RunEntry(i).errs) : RunEntry(i).errs[k].at \notin Dropped

\* ---------------------------------------------------------------- annotation order
\* parse_fields, the body of `for field in fields` on a field whose
\* attributes hold the annotations metas: `for meta in meta_list` from fresh
\* locals (an attribute that does not parse pushes its error), then the end
\* of the iteration
RECURSIVE parse_metas(_, _, _, _)
parse_metas(metas, fld, f, errs) ==
    IF metas = << >> THEN Step(fld, errs)
    ELSE LET meta == Head(metas)
             m == Len(fld.metas) + 1
             r == IF meta.t = "error"
                  THEN Step(fld, << Error("attribute does not parse", "", f, m) >>)
                  ELSE on_meta(fld, meta, f, m)
         IN  parse_metas(Tail(metas), [r.field EXCEPT !.metas = Append(@, meta)],
                         f, errs \o r.errs)

parse_field(metas, pos, f) ==
    LET r == parse_metas(metas, [NoField EXCEPT !.pos = pos], f, << >>)
        e == end_field(r.field, << >>, f)
    IN  [field |-> r.field, out |-> e.out, errs |-> r.errs \o e.errs]

\* the annotations metas in the order q, a permutation of their indices
Reordered(metas, q) == [i \in 1..Len(metas) |-> metas[q[i]]]

\* the field that has ended is what parse_field gives for its annotations
FieldIsParsed ==
    FieldEnded =>
        LET r == parse_field(field.metas, field.pos, nfields)
        IN  /\ r.field = field
            /\ (r.errs = << >>) <=> (FieldErrors = {})

\* C13: the annotations of a field read in any other order give the same
\* outcome: errors in both orders or in neither, and when accepted the same
\* markers, the same Field pushed or dropped, and rule sets that are equal
\* and iterate in the same order
C13_OrderIndependent ==
    FieldEnded =>
        \A q \in Permutations(1..Len(field.metas)) :
            LET other == parse_field(Reordered(field.metas, q), field.pos, nfields)
            IN  /\ (FieldErrors = {}) <=> (other.errs = << >>)
                /\ FieldErrors = {} =>
                      /\ other.field.dive = field.dive
                      /\ other.field.skip = field.skip
                      /\ retained(other.field) = retained(field)
                      /\ \A a \in field.rules : contains(other.field.rules, a)
                      /\ \A b \in other.field.rules : contains(field.rules, b)
                      /\ iter(other.field.rules) = iter(field.rules)

\* ---------------------------------------------------------------- pattern statics
\* the discriminant of Rule::Pattern
Pattern == 14

\* most fields of the derive input that carry a pattern rule
MaxPatterns == 2

\* most threads that call validate
MaxThreads == 2

\* the literals of pattern("...")
Literals == { "a+", "b+" }

\* pattern(lit) as a field annotation
PatternMeta(lit) == [t |-> "rule", rule |-> [kind |-> Pattern, arg |-> lit], alias |-> ""]

\* parse_fields on the named fields of `struct S { #[garde(pattern(lits[1]))]
\* a: String, ... }`
RECURSIVE pattern_fields(_, _, _)
pattern_fields(lits, k, acc) ==
    IF k > Len(lits) THEN acc
    ELSE pattern_fields(lits, k + 1,
             acc \o parse_field(<< PatternMeta(lits[k]) >>, k, k).out)

\* Rule::emit, Rule::Pattern(s): every emitted pattern rule declares a
\* `static PATTERN: StaticPattern = init_pattern!(s)` of its own; the static
\* of the k-th field holds the literal and the state of its lazy cell
RECURSIVE pattern_statics(_, _, _)
pattern_statics(fields, k, acc) ==
    IF k > Len(fields) THEN acc
    ELSE LET ps == { r \in fields[k].rules : r.kind = Pattern }
         IN  pattern_statics(fields, k + 1,
                 IF ps = {} THEN acc
                 ELSE Append(acc, [field |-> k, lit |-> (CHOOSE r \in ps : TRUE).arg,
                                   state |-> "uninit", compiled |-> 0]))

\* a thread that is not inside validate
Idle == [pc |-> "idle", at |-> 0]

\* the derive of a record struct of pattern fields has returned its impl, no
\* static has been used and no thread is inside validate
PatternInit ==
    \E n \in 1..MaxPatterns :
    \E lits \in [1..n -> Literals] :
        LET fields == pattern_fields(lits, 1, << >>)
        IN  /\ pc = "done"
            /\ data = "named"
            /\ size = 2 * n
            /\ nfields = n
            /\ errors = << >>
            /\ context = "None"
            /\ variants = << >>
            /\ vkind = "named"
            /\ out = fields
            /\ field = parse_field(<< PatternMeta(lits[n]) >>, n, n).field
            /\ inner = StructKind("FieldStruct", fields, n)
            /\ output = emitted(errors)
            /\ run = NoRun
            /\ statics = pattern_statics(fields, 1, << >>)
            /\ threads = [t \in 1..MaxThreads |-> Idle]

PatternUnchanged ==
    UNCHANGED << pc, data, size, nfields, errors, context, variants, vkind, out,
                 field, inner, output, run >>

\* a thread calls validate on an instance of its own and reaches the rule of
\* the first field
PatternCall(t) ==
    /\ threads[t].pc = "idle"
    /\ threads' = [threads EXCEPT ![t] = [pc |-> "rule", at |-> 1]]
    /\ UNCHANGED statics
    /\ PatternUnchanged

\* the first use of &PATTERN: the cell is uninitialized, and the thread that
\* finds it so starts the compilation of the literal; no second thread can
\* find it uninitialized
LazyBegin(t) ==
    /\ threads[t].pc = "rule"
    /\ statics[threads[t].at].state = "uninit"
    /\ statics' = [statics EXCEPT ![threads[t].at].state = "compiling"]
    /\ threads' = [threads EXCEPT ![t].pc = "compile"]
    /\ PatternUnchanged

\* the compilation ends: the cell holds the compiled pattern
LazyEnd(t) ==
    /\ threads[t].pc = "compile"
    /\ statics' = [statics EXCEPT ![threads[t].at].state = "ready",
                                  ![threads[t].at].compiled = @ + 1]
    /\ threads' = [threads EXCEPT ![t].pc = "apply"]
    /\ PatternUnchanged

\* a later use of &PATTERN: the cell is initialized and is read; a thread
\* that finds the cell being compiled waits
LazyGet(t) ==
    /\ threads[t].pc = "rule"
    /\ statics[threads[t].at].state = "ready"
    /\ threads' = [threads EXCEPT ![t].pc = "apply"]
    /\ UNCHANGED statics
    /\ PatternUnchanged

\* (::garde::rules::pattern::apply)(#access, (&PATTERN,)) has returned and
\* the thread goes on to the next field
PatternApply(t) ==
    /\ threads[t].pc = "apply"
    /\ threads[t].at < Len(statics)
    /\ threads' = [threads EXCEPT ![t] = [pc |-> "rule", at |-> @.at + 1]]
    /\ UNCHANGED statics
    /\ PatternUnchanged

\* the rule of the last field has returned, and so does validate
PatternReturn(t) ==
    /\ threads[t].pc = "apply"
    /\ threads[t].at = Len(statics)
    /\ threads' = [threads EXCEPT ![t] = Idle]
    /\ UNCHANGED statics
    /\ PatternUnchanged

PatternNext ==
    \E t \in 1..MaxThreads :
        \/ PatternCall(t)
        \/ LazyBegin(t)
        \/ LazyEnd(t)
        \/ LazyGet(t)
        \/ PatternApply(t)
        \/ PatternReturn(t)

PatternSpec == PatternInit /\ [][PatternNext]_vars

\* the compilations of a literal that have ended, over all the statics
RECURSIVE Compilations(_, _)
Compilations(lit, k) ==
    IF k > Len(statics) THEN 0
    ELSE (IF statics[k].lit = lit THEN statics[k].compiled ELSE 0)
            + Compilations(lit, k + 1)

\* a thread inside pattern::apply reads a cell that is fully compiled
ReadsCompiled ==
    \A t \in 1..Len(threads) :
        threads[t].pc = "apply" => statics[threads[t].at].state = "ready"

\* every static is compiled at most once, by one thread at a time
OncePerStatic ==
    \A k \in 1..Len(statics) :
        /\ statics[k].compiled <= 1
        /\ statics[k].compiled = 1 <=> statics[k].state = "ready"
        /\ Cardinality({ t \in 1..Len(threads) :
                            threads[t].pc = "compile" /\ threads[t].at = k })
              = (IF statics[k].state = "compiling" THEN 1 ELSE 0)

\* C14: under any interleaving of concurrent validate calls a pattern literal
\* is compiled at most once process-wide, also when several pattern rules use
\* the same literal, and every read after the first use observes the fully
\* compiled result
C14_CompiledOncePerLiteral ==
    /\ \A lit \in Literals : Compilations(lit, 1) <= 1
    /\ ReadsCompiled

\* ---------------------------------------------------------------- order of the tests
\* a dive marker stands before annotation m of the field
AfterDive(metas, m) == \E j \in 1..(m - 1) : metas[j].t = "dive"

\* C15 as stated: the duplicate test is applied before the dive test, so a
\* rule occurrence whose kind the field already has and that stands after
\* dive is reported with "duplicate rule `<name>`"
C15_DuplicateBeforeDive ==
    InField =>
        \A m \in 1..Len(field.metas) :
            (Repeated(field.metas, m) /\ AfterDive(field.metas, m)) =>
                \E i \in ErrorsAt(m) :
                    /\ errors[i].msg = "duplicate rule"
                    /\ errors[i].name = name(field.metas[m].rule)

\* C15 amended: the dive test is applied before the duplicate test: every
\* rule occurrence that stands after dive, also one whose kind the field
\* already has, is reported once, with "`<name>` may not be used together
\* with dive", and "duplicate rule `<name>`" is the one report of a repeated
\* kind that no dive precedes
C15_DiveBeforeDuplicate ==
    InField =>
        \A m \in 1..Len(field.metas) :
            IsRule(field.metas[m]) =>
                /\ AfterDive(field.metas, m) =>
                      /\ Cardinality(ErrorsAt(m)) = 1
                      /\ \A i \in ErrorsAt(m) :
                            /\ errors[i].msg = "may not be used together with dive"
                            /\ errors[i].name = name(field.metas[m].rule)
                /\ (Repeated(field.metas, m) /\ ~AfterDive(field.metas, m)) =>
                      /\ Cardinality(ErrorsAt(m)) = 1
                      /\ \A i \in ErrorsAt(m) :
                            /\ errors[i].msg = "duplicate rule"
                            /\ errors[i].name = name(field.metas[m].rule)

\* C15 witness: length(min = 1), dive, length(max = 2) on one field: the
\* second length is reported as used together with dive
C15_Witness ==
    /\ InField
    /\ Len(field.metas) = 3
    /\ field.metas[1] = [t |-> "rule", rule |-> [kind |-> Length, arg |-> 1], alias |-> ""]
    /\ field.metas[2].t = "dive"
    /\ field.metas[3] = [t |-> "rule", rule |-> [kind |-> Length, arg |-> 2], alias |-> ""]
    /\ \E i \in ErrorsAt(3) :
          /\ errors[i].msg = "may not be used together with dive"
          /\ errors[i].name = "length"
    /\ Cardinality(ErrorsAt(3)) = 1
    /\ field.rules = { [kind |-> Length, arg |-> 1] }

====
